---- MODULE Spec2Model ----
(***************************************************************************)
(* PGOMemOPSizeOpt: the profile-guided size specialization of memory       *)
(* operations (llvm/lib/Transforms/Instrumentation/PGOMemOPSizeOpt.cpp).   *)
(*                                                                         *)
(* The state is one function (its blocks and instructions), the value      *)
(* profile annotation of its instructions, the block frequency analysis,   *)
(* the command line options and the pass object.  One action is one run of *)
(* the pass over the function.                                             *)
(*                                                                         *)
(* uint64_t is modelled as an unsigned word of CountBits bits: every       *)
(* operation that can leave the word is reduced as the hardware reduces it *)
(* (modulo 2^CountBits) or saturates where the code saturates.             *)
(***************************************************************************)
EXTENDS Integers, Sequences, FiniteSets, TLC

\* ---------------------------------------------------------------- bounds
\* Width of the modelled uint64_t word.
CountBits == 28
\* Number of times the pass is run over the function.
MaxRuns == 2

Modulus == 2 ^ CountBits
UINT64_MAX == Modulus - 1
HalfWord == 2 ^ (CountBits - 1)

\* cl::init(128) of -memop-value-prof-max-opt-size
MemOpMaxOptSize == 128
\* INSTR_PROF_MEMOP_MAX_SINGLE of InstrProfData.inc: sizes up to it are
\* profiled one by one.
MemOPMaxSingle == 8
\* Last value of the precise range of the old value profiling, as the option
\* -memop-size-range=0:31 sets it
PreciseRangeLast == 31
\* The value that groups the large sizes, as -memop-size-large=129 sets it
MemOPSizeLarge == 129

VARIABLES
    \* command line options
    MemOPCountThreshold,
    MemOPPercentThreshold,
    MemOPMaxVersion,
    MemOPScaleCount,
    MemOPOptMemcmpBcmp,
    UseOldMemOpValueProf,
    \* the function: block id -> instructions (the last one the terminator),
    \* and the order of the blocks in the function
    body,
    layout,
    \* !prof value-profile metadata: instruction id -> record
    MD_prof,
    \* BlockFrequencyInfo: block id -> frequency, and the function's entry
    \* count and entry frequency
    BFI,
    entry,
    \* the pass object and the history of perform(MO) calls
    Changed,
    runs,
    log

vars == << MemOPCountThreshold, MemOPPercentThreshold, MemOPMaxVersion,
           MemOPScaleCount, MemOPOptMemcmpBcmp, UseOldMemOpValueProf,
           body, layout, MD_prof, BFI, entry, Changed, runs, log >>

options == << MemOPCountThreshold, MemOPPercentThreshold, MemOPMaxVersion,
              MemOPScaleCount, MemOPOptMemcmpBcmp, UseOldMemOpValueProf >>

\* ------------------------------------------------------------ arithmetic
Min(a, b) == IF a <= b THEN a ELSE b

\* The sequence f as an explicit tuple of its elements.
AsSeq(f) == SubSeq(f, 1, Len(f))

RECURSIVE SumCounts(_)
SumCounts(s) == IF s = << >> THEN 0 ELSE Head(s) + SumCounts(Tail(s))

\* a * b of two uint64_t operands: the low CountBits bits of the product.
\* The product is reduced piecewise so that no intermediate value leaves the
\* range of the model checker's integers.
SplitAt == 2 ^ 12
MulWrap(a, b) ==
    LET hi == a \div SplitAt
        lo == a % SplitAt
    IN  ((((hi * b) % (Modulus \div SplitAt)) * SplitAt) + (lo * b)) % Modulus

\* a - b of two uint64_t operands
SubWrap(a, b) == (a - b + Modulus) % Modulus

\* llvm::SaturatingMultiply(X, Y, &Overflowed): the product, or the maximum
\* value of the type when the product does not fit.
SaturatingMultiply(X, Y) ==
    IF X = 0 \/ Y = 0 THEN 0
    ELSE IF Y > UINT64_MAX \div X THEN UINT64_MAX
    ELSE X * Y

\* ------------------------------------------------------ the planner's tests
\* isProfitable(Count, TotalCount), without its assertion (see PlanStep)
isProfitable(Count, TotalCount) ==
    IF Count < MemOPCountThreshold THEN FALSE
    ELSE IF Count < MulWrap(TotalCount, MemOPPercentThreshold) \div 100 THEN FALSE
    ELSE TRUE

\* The scaled count rounded up instead of down.
getScaledCountRoundedUp(Count, Num, Denom) ==
    IF ~ MemOPScaleCount THEN Count
    ELSE (SaturatingMultiply(Count, Num) + Denom - 1) \div Denom

getScaledCount(Count, Num, Denom) ==
    IF ~ MemOPScaleCount THEN Count
    ELSE SaturatingMultiply(Count, Num) \div Denom

\* MemOPSizeKind of the old value profiling
getMemOPSizeKind(Value) ==
    IF Value = MemOPSizeLarge /\ MemOPSizeLarge # 0 THEN "LargeGroup"
    ELSE IF Value = PreciseRangeLast + 1 THEN "NonLargeGroup"
    ELSE "PreciseValue"

RECURSIVE Popcount(_)
Popcount(n) == IF n = 0 THEN 0 ELSE (n % 2) + Popcount(n \div 2)

\* InstrProfIsSingleValRange of InstrProfData.inc: the sizes up to
\* MemOPMaxSingle and the powers of two stand for themselves, every other
\* recorded value stands for a range of sizes.
InstrProfIsSingleValRange(Value) ==
    \/ Value <= MemOPMaxSingle
    \/ Popcount(Value) = 1

\* A filter that passes over no sample: the walk without its "continue".
SkipsNothing(V) == FALSE

\* The value-kind filter of the sample walk: TRUE when the sample is passed
\* over ("continue").
SkipsValue(V) ==
    IF UseOldMemOpValueProf
    THEN getMemOPSizeKind(V) # "PreciseValue"
    ELSE ~ InstrProfIsSingleValRange(V) \/ V > MemOpMaxOptSize

\* ------------------------------------------------------- profile metadata
\* A value-profile record of kind IPVK_MemOPSize: the recorded (Value, Count)
\* pairs and the total count.
NoMD == [present |-> FALSE, vals |-> << >>, total |-> 0]
ValueProfMD(VDs, Sum) == [present |-> TRUE, vals |-> VDs, total |-> Sum]

\* getValueProfDataFromInst(Inst, IPVK_MemOPSize, MaxNumValueData, ...): fails
\* without a record or without a value in it, and reads at most
\* MaxNumValueData values.
getValueProfDataFromInst(md, MaxNumValueData) ==
    IF ~ md.present \/ Len(md.vals) = 0
    THEN [ok |-> FALSE, VDs |-> << >>, NumVals |-> 0, TotalCount |-> 0]
    ELSE LET n == Min(Len(md.vals), MaxNumValueData)
         IN  [ok |-> TRUE, VDs |-> SubSeq(md.vals, 1, n), NumVals |-> n,
              TotalCount |-> md.total]

\* annotateValueSite(M, Inst, VDs, Sum, IPVK_MemOPSize, MaxMDCount): writes at
\* most MaxMDCount of the values, and the total.
annotateValueSite(VDs, Sum, MaxMDCount) ==
    ValueProfMD(SubSeq(VDs, 1, Min(Len(VDs), MaxMDCount)), Sum)

\* ArrayRef::slice(N): the array without its first N elements
slice(VDs, N) == SubSeq(VDs, N + 1, Len(VDs))

\* ----------------------------------------------------------- the planner
\* The locals of perform(MO) before the walk over the samples.
\* tests records, for every sample that reached the profitability test, its
\* position, its count, the remaining count it was tested against and the
\* verdict; picked the positions of the accepted samples; assertsHold
\* whether the three assertions of the walk held so far.
PlanStart(TotalCount, SavedTotalCount) ==
    [RemainCount |-> TotalCount,
     SavedRemainCount |-> SavedTotalCount,
     SizeIds |-> << >>,
     CaseCounts |-> << 0 >>,
     MaxCount |-> 0,
     Version |-> 0,
     stopped |-> FALSE,
     tests |-> << >>,
     picked |-> << >>,
     assertsHold |-> TRUE]

\* One iteration of "for (auto &VD : VDs)".
PlanStep(p, VD, i, ActualCount, SavedTotalCount) ==
    LET V == VD.Value
        C == IF MemOPScaleCount
             THEN getScaledCount(VD.Count, ActualCount, SavedTotalCount)
             ELSE VD.Count
        ok == isProfitable(C, p.RemainCount)
        t == [pos |-> i, C |-> C, Remain |-> p.RemainCount, ok |-> ok]
        Version == p.Version + 1
    IN  IF SkipsValue(V) THEN p
        ELSE IF ~ ok
        THEN [p EXCEPT !.stopped = TRUE,
                       !.tests = Append(@, t),
                       !.assertsHold = @ /\ C <= p.RemainCount]
        ELSE [p EXCEPT
                !.SizeIds = Append(@, V),
                !.CaseCounts = Append(@, C),
                !.MaxCount = IF C > @ THEN C ELSE @,
                !.RemainCount = SubWrap(@, C),
                !.SavedRemainCount = SubWrap(@, VD.Count),
                !.Version = Version,
                !.stopped = (Version > MemOPMaxVersion /\ MemOPMaxVersion # 0),
                !.tests = Append(@, t),
                !.picked = Append(@, i),
                !.assertsHold = /\ @
                                /\ C <= p.RemainCount
                                /\ p.SavedRemainCount >= VD.Count]

RECURSIVE PlanWalk(_, _, _, _, _)
PlanWalk(p, VDs, i, ActualCount, SavedTotalCount) ==
    IF i > Len(VDs) \/ p.stopped THEN p
    ELSE PlanWalk(PlanStep(p, VDs[i], i, ActualCount, SavedTotalCount),
                  VDs, i + 1, ActualCount, SavedTotalCount)

\* The walk alone: the slot of the default case is left as it was saved.
PlanNoDefault(VDs, ActualCount, SavedTotalCount) ==
    PlanWalk(PlanStart(ActualCount, SavedTotalCount), VDs, 1,
             ActualCount, SavedTotalCount)

\* The walk of perform(MO), and what follows it when a version was accepted:
\* the default case takes the remaining count.
Plan(VDs, ActualCount, SavedTotalCount) ==
    LET p == PlanWalk(PlanStart(ActualCount, SavedTotalCount), VDs, 1,
                      ActualCount, SavedTotalCount)
    IN  IF p.Version = 0 THEN p
        ELSE [p EXCEPT !.CaseCounts[1] = p.RemainCount,
                       !.MaxCount = IF p.RemainCount > @ THEN p.RemainCount ELSE @]

\* ------------------------------------------------------------ the function
\* Instructions.  Every instruction has an op and an id (terminators: id 0).
\* The length operand of a memop is a constant or the value named val.
LengthVar(v) == [const |-> FALSE, val |-> v]
LengthConst(n) == [const |-> TRUE, val |-> n]
CallInst(id, kind, len) == [op |-> "call", id |-> id, kind |-> kind, len |-> len]
UseInst(id, arg) == [op |-> "use", id |-> id, arg |-> arg]
RetInst == [op |-> "ret", id |-> 0]
BrInst(dest) == [op |-> "br", id |-> 0, dest |-> dest]
SwitchInst(cond, dflt, cases, weights, maxCount) ==
    [op |-> "switch", id |-> 0, cond |-> cond, dflt |-> dflt, cases |-> cases,
     weights |-> weights, maxCount |-> maxCount]
PHINode(id, incoming) == [op |-> "phi", id |-> id, incoming |-> incoming]

MemIntrinsics == {"memcpy", "memmove", "memset"}
LibCompares == {"memcmp", "bcmp"}

\* MemOp::isMemmove, MemOp::isMemcmp, MemOp::isBcmp
isMemmove(I) == I.kind = "memmove"
isMemcmp(I) == I.kind = "memcmp"
isBcmp(I) == I.kind = "bcmp"
\* MO.I->getType()->isVoidTy(): the intrinsics return nothing, the library
\* comparisons an int
isVoidTy(I) == I.kind \in MemIntrinsics

Blocks(fbody) == 1 .. Len(fbody)
Terminator(fbody, b) == fbody[b][Len(fbody[b])]
Successors(t) ==
    IF t.op = "br" THEN {t.dest}
    ELSE IF t.op = "switch"
    THEN {t.dflt} \cup {t.cases[k].dest : k \in 1 .. Len(t.cases)}
    ELSE {}
Predecessors(fbody, b) ==
    {a \in Blocks(fbody) : b \in Successors(Terminator(fbody, a))}

InstIds(fbody) ==
    UNION {{fbody[b][i].id : i \in 1 .. Len(fbody[b])} : b \in Blocks(fbody)}
MaxInstId(fbody) == CHOOSE m \in InstIds(fbody) : \A n \in InstIds(fbody) : n <= m

\* I->getParent() and the position of I in its block
ParentOf(fbody, id) ==
    CHOOSE b \in Blocks(fbody) : \E i \in 1 .. Len(fbody[b]) : fbody[b][i].id = id
IndexOf(insts, id) == CHOOSE i \in 1 .. Len(insts) : insts[i].id = id
InstOf(fbody, id) ==
    LET b == ParentOf(fbody, id) IN fbody[b][IndexOf(fbody[b], id)]

InsertAfter(seq, x, new) ==
    LET k == CHOOSE i \in 1 .. Len(seq) : seq[i] = x
    IN  SubSeq(seq, 1, k) \o << new >> \o SubSeq(seq, k + 1, Len(seq))
InsertBefore(seq, x, new) ==
    LET k == CHOOSE i \in 1 .. Len(seq) : seq[i] = x
    IN  SubSeq(seq, 1, k - 1) \o << new >> \o SubSeq(seq, k, Len(seq))

\* BasicBlock::replaceSuccessorsPhiUsesWith(Old, New), on one instruction of a
\* successor block
RenameIncomingBlock(I, Old, New) ==
    IF I.op # "phi" THEN I
    ELSE [I EXCEPT !.incoming =
            AsSeq([k \in 1 .. Len(@) |->
                IF @[k].from = Old THEN [@[k] EXCEPT !.from = New] ELSE @[k]])]

\* SplitBlock(Old, SplitPt, DT): the instructions of Old from position k on
\* move to a new block placed after Old, Old branches to it, and the phis of
\* the successors name the new block as their predecessor.  The new block is
\* Len(fn.body) + 1.  The frequency analysis is not told.
SplitBlock(fn, Old, k) ==
    LET New == Len(fn.body) + 1
        moved == SubSeq(fn.body[Old], k, Len(fn.body[Old]))
        succs == Successors(moved[Len(moved)])
        kept == SubSeq(fn.body[Old], 1, k - 1) \o << BrInst(New) >>
        b1 == Append([fn.body EXCEPT ![Old] = kept], moved)
        b2 == AsSeq([b \in 1 .. Len(b1) |->
                 IF b \in succs
                 THEN AsSeq([i \in 1 .. Len(b1[b]) |->
                                RenameIncomingBlock(b1[b][i], Old, New)])
                 ELSE b1[b]])
    IN  [fn EXCEPT !.body = b2, !.layout = InsertAfter(fn.layout, Old, New)]

\* BlockFrequencyInfo::getBlockFreq: 0 for a block the analysis does not know
getBlockFreq(bfi, b) == IF b \in DOMAIN bfi THEN bfi[b] ELSE 0
\* BlockFrequencyInfo::setBlockFreq
setBlockFreq(bfi, b, f) == (b :> f) @@ bfi
\* BlockFrequencyInfo::getBlockProfileCount: nothing without an entry count,
\* else the frequency scaled by entry count / entry frequency, rounded.
getBlockProfileCount(bfi, b) ==
    IF ~ entry.hasCount THEN [has |-> FALSE, val |-> 0]
    ELSE [has |-> TRUE,
          val |-> (getBlockFreq(bfi, b) * entry.count + entry.freq \div 2)
                      \div entry.freq]

\* ------------------------------------------------------------ the rewriter
\* Value::replaceAllUsesWith, on one instruction
ReplaceUse(I, old, new) ==
    IF I.op = "use" /\ I.arg = old THEN [I EXCEPT !.arg = new]
    ELSE IF I.op = "phi"
    THEN [I EXCEPT !.incoming =
            AsSeq([k \in 1 .. Len(@) |->
                IF @[k].val = old THEN [@[k] EXCEPT !.val = new] ELSE @[k]])]
    ELSE I
replaceAllUsesWith(fbody, old, new) ==
    AsSeq([b \in 1 .. Len(fbody) |->
        AsSeq([i \in 1 .. Len(fbody[b]) |-> ReplaceUse(fbody[b][i], old, new)])])

\* BasicBlock::getFirstNonPHI, as a position
FirstNonPHI(insts) == CHOOSE i \in 1 .. Len(insts) :
    /\ insts[i].op # "phi"
    /\ \A j \in 1 .. i - 1 : insts[j].op = "phi"

\* "Clear the value profile data", then "update with the un-promoted records
\* back" unless all was promoted.
Reannotate(VDs, Version, SavedRemainCount, NumVals) ==
    IF SavedRemainCount > 0 \/ Version # NumVals
    THEN annotateValueSite(slice(VDs, Version), SavedRemainCount, NumVals)
    ELSE NoMD

\* The frequency given to the default block instead of the merge block.
SetDefaultFreq(bfi, BB, DefaultBB, MergeBB, OrigBBFreq) ==
    setBlockFreq(bfi, DefaultBB, OrigBBFreq)

\* No frequency given to any of the new blocks.
SetNoFreq(bfi, BB, DefaultBB, MergeBB, OrigBBFreq) == bfi

\* BFI.setBlockFreq(MergeBB, OrigBBFreq.getFrequency())
SetMergeFreq(bfi, BB, DefaultBB, MergeBB, OrigBBFreq) ==
    setBlockFreq(bfi, MergeBB, OrigBBFreq)

\* The cases of the switch: SI->addCase(CaseSizeId, CaseBB) for every SizeId,
\* the k-th case block being FirstCaseBB + k - 1.
SwitchCases(SizeIds, FirstCaseBB) ==
    AsSeq([k \in 1 .. Len(SizeIds) |->
              [val |-> SizeIds[k], dest |-> FirstCaseBB + k - 1]])

\* A case block whose clone keeps the length of the original ("Fix the
\* argument" left out).
CaseBlockSameLength(I, cloneId, SizeId, MergeBB) ==
    << CallInst(cloneId, I.kind, I.len), BrInst(MergeBB) >>

\* A case block: the clone of the memop with the constant length, and the
\* branch to the merge block.
CaseBlock(I, cloneId, SizeId, MergeBB) ==
    << CallInst(cloneId, I.kind, LengthConst(SizeId)), BrInst(MergeBB) >>

\* The phi of the return values: the original call from the default block,
\* then each clone from its case block.
MergePHI(phiId, MO, DefaultBB, n, FirstCloneId, FirstCaseBB) ==
    PHINode(phiId,
        << [val |-> MO, from |-> DefaultBB] >> \o
        [k \in 1 .. n |-> [val |-> FirstCloneId + k - 1, from |-> FirstCaseBB + k - 1]])

RECURSIVE InsertAllBefore(_, _, _)
InsertAllBefore(seq, x, news) ==
    IF news = << >> THEN seq
    ELSE InsertAllBefore(InsertBefore(seq, x, Head(news)), x, Tail(news))

\* The second half of perform(MO), step by step.
\* Both splits: before MO (the new block is the default block) and after it
\* (the new block is the merge block).
SplitAround(fn, BB, k) ==
    SplitBlock(SplitBlock(fn, BB, k), Len(fn.body) + 1, 2)

\* BB->getTerminator()->eraseFromParent(); IRB.CreateSwitch(SizeVar, DefaultBB, ..)
\* with the cases and, from setProfMetadata, the counts of the successors
\* (the default first) and the count they are normalized against.
InstallSwitch(fbody, BB, SI) ==
    [fbody EXCEPT ![BB] = SubSeq(@, 1, Len(@) - 1) \o << SI >>]

PutAt(insts, at, I) ==
    SubSeq(insts, 1, at - 1) \o << I >> \o SubSeq(insts, at, Len(insts))

\* The phi is created in front of the first non-phi of the merge block, takes
\* over the uses of MO, and then gets its incoming values.
InstallPHI(fbody, MergeBB, MO, phi) ==
    [replaceAllUsesWith(fbody, MO, phi.id) EXCEPT
        ![MergeBB] = PutAt(@, FirstNonPHI(@), phi)]

AddCaseBlocks(fbody, I, SizeIds, FirstCloneId, MergeBB) ==
    fbody \o [k \in 1 .. Len(SizeIds) |->
                CaseBlock(I, FirstCloneId + k - 1, SizeIds[k], MergeBB)]

\* The clones carry the metadata MO has when it is cloned.
AnnotateAll(mds, MO, md, n, FirstCloneId) ==
    [j \in {FirstCloneId + k - 1 : k \in 1 .. n} |-> md]
    @@ [mds EXCEPT ![MO] = md]

RewriteBody(split, MO, I, p, BB, DefaultBB, MergeBB, phiId) ==
    AddCaseBlocks(
        IF isVoidTy(I)
        THEN InstallSwitch(split, BB,
                 SwitchInst(I.len, DefaultBB, SwitchCases(p.SizeIds, MergeBB + 1),
                            p.CaseCounts, p.MaxCount))
        ELSE InstallPHI(
                 InstallSwitch(split, BB,
                     SwitchInst(I.len, DefaultBB, SwitchCases(p.SizeIds, MergeBB + 1),
                                p.CaseCounts, p.MaxCount)),
                 MergeBB, MO,
                 MergePHI(phiId, MO, DefaultBB, Len(p.SizeIds), phiId + 1, MergeBB + 1)),
        I, p.SizeIds, phiId + 1, MergeBB)

RewriteIn(fn, bfi, MO, p, md, BB, I, split, DefaultBB, MergeBB, phiId) ==
    [fn |-> [body |-> RewriteBody(split.body, MO, I, p, BB, DefaultBB, MergeBB, phiId),
             layout |-> InsertAllBefore(split.layout, DefaultBB,
                            [k \in 1 .. Len(p.SizeIds) |-> MergeBB + k]),
             MD_prof |-> AnnotateAll(fn.MD_prof, MO, md, Len(p.SizeIds), phiId + 1)],
     bfi |-> SetMergeFreq(bfi, BB, DefaultBB, MergeBB, getBlockFreq(bfi, BB)),
     BB |-> BB, DefaultBB |-> DefaultBB, MergeBB |-> MergeBB,
     PHI |-> IF isVoidTy(I) THEN 0 ELSE phiId,
     OrigBBFreq |-> getBlockFreq(bfi, BB)]

\* The block of MO is split around it, the head gets the switch, the merge
\* block the frequency of the block and the phi, the call its remaining
\* profile, and every planned size its case block.  The default block is
\* Len(fn.body) + 1, the merge block the next, then the case blocks.
RewriteAt(fn, bfi, MO, p, md, BB) ==
    RewriteIn(fn, bfi, MO, p, md, BB, InstOf(fn.body, MO),
              SplitAround(fn, BB, IndexOf(fn.body[BB], MO)),
              Len(fn.body) + 1, Len(fn.body) + 2, MaxInstId(fn.body) + 1)

Rewrite(fn, bfi, MO, p, VDs, NumVals) ==
    RewriteAt(fn, bfi, MO, p,
              Reannotate(VDs, p.Version, p.SavedRemainCount, NumVals),
              ParentOf(fn.body, MO))

\* ------------------------------------------------------------ perform(MO)
\* The early returns without the first: a memmove is taken like a memcpy.
SkipReasonMovesToo(I, vp, cnt, ActualCount) ==
    IF ~ MemOPOptMemcmpBcmp /\ (isMemcmp(I) \/ isBcmp(I)) THEN "compare disabled"
    ELSE IF ~ vp.ok THEN "no profile"
    ELSE IF MemOPScaleCount /\ ~ cnt.has THEN "no block count"
    ELSE IF ActualCount < MemOPCountThreshold THEN "below threshold"
    ELSE IF vp.TotalCount = 0 THEN "zero total"
    ELSE IF Plan(vp.VDs, ActualCount, vp.TotalCount).Version = 0 THEN "no version"
    ELSE ""

\* Why perform(MO) returned false, in the order of its early returns; "" when
\* it went on to rewrite.
SkipReason(I, vp, cnt, ActualCount) ==
    IF isMemmove(I) THEN "memmove"
    ELSE IF ~ MemOPOptMemcmpBcmp /\ (isMemcmp(I) \/ isBcmp(I)) THEN "compare disabled"
    ELSE IF ~ vp.ok THEN "no profile"
    ELSE IF MemOPScaleCount /\ ~ cnt.has THEN "no block count"
    ELSE IF ActualCount < MemOPCountThreshold THEN "below threshold"
    ELSE IF vp.TotalCount = 0 THEN "zero total"
    ELSE IF Plan(vp.VDs, ActualCount, vp.TotalCount).Version = 0 THEN "no version"
    ELSE ""

\* The record of one call of perform(MO): its locals, and the function and
\* the frequencies before and after it.
PerformRecord(fn, bfi, MO, run, I, vp, ActualCount, why, p, ret, rw) ==
    [ret |-> ret,
     fn |-> rw.fn,
     bfi |-> rw.bfi,
     rec |-> [run |-> run, MO |-> MO, kind |-> I.kind, ret |-> ret, why |-> why,
              md |-> fn.MD_prof[MO],
              VDs |-> vp.VDs, NumVals |-> vp.NumVals,
              SavedTotalCount |-> vp.TotalCount,
              TotalCount |-> ActualCount,
              plan |-> p,
              SumForOpt |-> IF ret THEN SubWrap(ActualCount, p.RemainCount) ELSE 0,
              BB |-> rw.BB, DefaultBB |-> rw.DefaultBB, MergeBB |-> rw.MergeBB,
              PHI |-> rw.PHI, OrigBBFreq |-> rw.OrigBBFreq,
              before |-> [fn |-> fn, bfi |-> bfi],
              after |-> [fn |-> rw.fn, bfi |-> rw.bfi]]]

\* What a call that returns false leaves: everything as it was.
NoRewrite(fn, bfi, MO) ==
    [fn |-> fn, bfi |-> bfi, BB |-> ParentOf(fn.body, MO), DefaultBB |-> 0,
     MergeBB |-> 0, PHI |-> 0, OrigBBFreq |-> 0]

performPlanned(fn, bfi, MO, run, I, vp, ActualCount, why, p) ==
    PerformRecord(fn, bfi, MO, run, I, vp, ActualCount, why, p, why = "",
                  IF why = "" THEN Rewrite(fn, bfi, MO, p, vp.VDs, vp.NumVals)
                  ELSE NoRewrite(fn, bfi, MO))

performChecked(fn, bfi, MO, run, I, vp, ActualCount, why) ==
    performPlanned(fn, bfi, MO, run, I, vp, ActualCount, why,
                   IF why \in {"", "no version"}
                   THEN Plan(vp.VDs, ActualCount, vp.TotalCount)
                   ELSE PlanStart(0, 0))

performRead(fn, bfi, MO, run, I, vp, cnt, ActualCount) ==
    performChecked(fn, bfi, MO, run, I, vp, ActualCount,
                   SkipReason(I, vp, cnt, ActualCount))

performOn(fn, bfi, MO, run, I, vp, cnt) ==
    performRead(fn, bfi, MO, run, I, vp, cnt,
                IF MemOPScaleCount THEN cnt.val ELSE vp.TotalCount)

\* bool MemOPSizeOpt::perform(MemOp MO) on the function fn with the block
\* frequencies bfi: the value returned, the function and the frequencies it
\* leaves, and the record of the call.
perform(fn, bfi, MO, run) ==
    performOn(fn, bfi, MO, run, InstOf(fn.body, MO),
              getValueProfDataFromInst(fn.MD_prof[MO], MemOPMaxVersion + 2),
              getBlockProfileCount(bfi, ParentOf(fn.body, MO)))

\* ------------------------------------------------------------- the pass
\* visitMemIntrinsic and visitCallInst over one block: the memory intrinsics
\* and the memcmp/bcmp calls whose length is not a constant.
RECURSIVE visitBlock(_)
visitBlock(insts) ==
    IF insts = << >> THEN << >>
    ELSE LET I == Head(insts)
             found == /\ I.op = "call"
                      /\ I.kind \in MemIntrinsics \cup LibCompares
                      /\ ~ I.len.const
         IN  (IF found THEN << I.id >> ELSE << >>) \o visitBlock(Tail(insts))

\* visit(Func): the blocks in the order of the function
RECURSIVE visit(_, _)
visit(fbody, order) ==
    IF order = << >> THEN << >>
    ELSE visitBlock(fbody[Head(order)]) \o visit(fbody, Tail(order))

\* "for (auto &MO : WorkList) if (perform(MO)) Changed = true"
RECURSIVE RunWorkList(_, _, _, _, _, _)
RunWorkList(fn, bfi, WorkList, changed, recs, run) ==
    IF WorkList = << >>
    THEN [fn |-> fn, bfi |-> bfi, Changed |-> changed, recs |-> recs]
    ELSE LET r == perform(fn, bfi, Head(WorkList), run)
         IN  RunWorkList(r.fn, r.bfi, Tail(WorkList), changed \/ r.ret,
                         Append(recs, r.rec), run)

\* The frequencies the analysis may hand to a later run of the pass: it is
\* computed anew for the rewritten function, so the blocks that hold a
\* candidate get any frequency of the set; the other blocks, which the pass
\* never asks about, keep theirs.
RerunFreqs == {16, 160}
FreshBFI(fbody, order, f) ==
    LET hosts == {ParentOf(fbody, visit(fbody, order)[k]) :
                    k \in 1 .. Len(visit(fbody, order))}
    IN  [b \in Blocks(fbody) |-> IF b \in hosts THEN f ELSE getBlockFreq(BFI, b)]

\* PGOMemOPSizeOptImpl(F, BFI, ORE, DT, TLI): one run of the pass, that is
\* MemOPSizeOpt::perform() and isChanged().
PassOver(bfi) ==
    LET fn == [body |-> body, layout |-> layout, MD_prof |-> MD_prof]
        r == RunWorkList(fn, bfi, visit(body, layout), FALSE, << >>, runs + 1)
    IN  /\ body' = r.fn.body
        /\ layout' = r.fn.layout
        /\ MD_prof' = r.fn.MD_prof
        /\ BFI' = r.bfi
        /\ Changed' = r.Changed
        /\ log' = log \o r.recs
        /\ runs' = runs + 1
        /\ UNCHANGED << options, entry >>

\* The first run, with the frequencies computed for the function as given.
PGOMemOPSizeOptImpl ==
    /\ runs = 0
    /\ runs < MaxRuns
    /\ PassOver(BFI)

\* A later run, over the function as the runs before left it.
PGOMemOPSizeOptImplAgain ==
    /\ runs > 0
    /\ runs < MaxRuns
    /\ \E f \in RerunFreqs : PassOver(FreshBFI(body, layout, f))

\* ------------------------------------------------------------ the inputs
\* Recorded sizes: two sizes that stand for themselves and one (129) that
\* stands for a range of sizes (and is the large group of the old profiling).
SizeValues == {16, 32, 129}
CountValues == {1000, 3000, 6000}
TotalValues == {0, 7000, 10000, HalfWord}

\* The value sequences of a record: distinct values.
ValueSeqs ==
    UNION {{s \in [1 .. n -> SizeValues] :
                \A i, j \in 1 .. n : i < j => s[i] # s[j]} :
           n \in 1 .. Cardinality(SizeValues)}

\* The counts of a record of total T: sorted on the count, the largest first,
\* and together at most the total (the total also counts the sizes the
\* record has no room for).
CountsOf(T) == IF T = HalfWord THEN {1000, 6000} ELSE CountValues
CountSeqs(n, T) ==
    IF T = 0 THEN {[i \in 1 .. n |-> 0]}
    ELSE {c \in [1 .. n -> CountsOf(T)] :
            /\ \A i \in 1 .. n - 1 : c[i] >= c[i + 1]
            /\ SumCounts(c) <= T}

\* The record of three sizes that stand for themselves, counted 6000, 3000
\* and 1000 out of 10000.
ThreeSizes ==
    ValueProfMD(<< [Value |-> 16, Count |-> 6000], [Value |-> 32, Count |-> 3000],
                   [Value |-> 64, Count |-> 1000] >>, 10000)

Profiles ==
    {NoMD, ThreeSizes} \cup
    UNION {UNION {{ValueProfMD([i \in 1 .. Len(v) |-> [Value |-> v[i], Count |-> c[i]]], T) :
                        c \in CountSeqs(Len(v), T)} :
                  v \in ValueSeqs} :
           T \in TotalValues}

\* The entry count and the entry frequency of the function.
\* Scaling off; or on, with no entry count or with a block frequency that
\* gives the block count 500, 2000, 20000 or 131072000.
EntryCounts == {1000}
EntryFreqs == {8}
BlockFreqs == {4, 16, 160, 2 ^ 20}
Analyses ==
    {[scale |-> FALSE, hasCount |-> TRUE, freq |-> f] : f \in EntryFreqs}
    \cup {[scale |-> TRUE, hasCount |-> FALSE, freq |-> f] : f \in EntryFreqs}
    \cup {[scale |-> TRUE, hasCount |-> TRUE, freq |-> f] : f \in BlockFreqs}

\* The candidates: the intrinsics, and the library comparisons with their
\* specialization on or off.
Candidates ==
    {[kind |-> k, cmp |-> TRUE] : k \in MemIntrinsics \cup LibCompares}
    \cup {[kind |-> k, cmp |-> FALSE] : k \in LibCompares}

\* One function of one block: the memop with a length that is not a constant,
\* a user of its result when it has one, and the return.
OneBlock(kind) ==
    << << CallInst(1, kind, LengthVar("n")) >>
       \o (IF kind \in MemIntrinsics THEN << >> ELSE << UseInst(2, 1) >>)
       \o << RetInst >> >>

\* The memcpy candidate is taken through every combination of the options;
\* the memcmp candidate through the default percent threshold and the new
\* value profiling; the other candidates through the default options, with
\* the scaling off or on.
Combined(c, pct, mv, old, a) ==
    \/ c.kind = "memcpy"
    \/ /\ pct = 40
       /\ ~ old
       /\ \/ c = [kind |-> "memcmp", cmp |-> TRUE] /\ mv # 0
          \/ mv = 3 /\ (~ a.scale \/ (a.hasCount /\ a.freq = 160))

\* One function of one block with two candidates, the first of kind k1 and
\* the second of kind k2, each with a length that is not a constant and a user
\* of its result when it has one.
TwoCalls(k1, k2) ==
    << << CallInst(1, k1, LengthVar("n")) >>
       \o (IF k1 \in MemIntrinsics THEN << >> ELSE << UseInst(3, 1) >>)
       \o << CallInst(2, k2, LengthVar("m")) >>
       \o (IF k2 \in MemIntrinsics THEN << >> ELSE << UseInst(4, 2) >>)
       \o << RetInst >> >>

\* The kinds of the two candidates: the first is rewritten or skipped on its
\* record, or always skipped (memmove).
KindPairs ==
    {<< "memcpy", "memcpy" >>, << "memcmp", "memcpy" >>,
     << "memmove", "memcpy" >>, << "memcpy", "memcmp" >>}

\* The records of the two candidates: none, one that is promoted, one whose
\* first sample is passed over, one that is not profitable.
PairProfiles ==
    {NoMD,
     ValueProfMD(<< [Value |-> 16, Count |-> 6000],
                    [Value |-> 32, Count |-> 3000] >>, 10000),
     ValueProfMD(<< [Value |-> 129, Count |-> 3000],
                    [Value |-> 16, Count |-> 3000] >>, 7000),
     ValueProfMD(<< [Value |-> 16, Count |-> 1000] >>, 7000)}

\* The function with one candidate, its record and the analysis.
OneCandidate ==
    /\ \E a \in Analyses, c \in Candidates :
        /\ Combined(c, MemOPPercentThreshold, MemOPMaxVersion,
                    UseOldMemOpValueProf, a)
        /\ MemOPScaleCount = a.scale
        /\ \E ec \in EntryCounts, ef \in EntryFreqs :
               entry = [hasCount |-> a.hasCount, count |-> ec, freq |-> ef]
        /\ BFI = << a.freq >>
        /\ MemOPOptMemcmpBcmp = c.cmp
        /\ body = OneBlock(c.kind)
    /\ \E md \in Profiles : MD_prof = (1 :> md)

\* The function with two candidates in one block, under the new value
\* profiling.
TwoCandidates ==
    /\ ~ UseOldMemOpValueProf
    /\ \E a \in Analyses, k \in KindPairs :
        /\ MemOPScaleCount = a.scale
        /\ \E ec \in EntryCounts, ef \in EntryFreqs :
               entry = [hasCount |-> a.hasCount, count |-> ec, freq |-> ef]
        /\ BFI = << a.freq >>
        /\ MemOPOptMemcmpBcmp = TRUE
        /\ body = TwoCalls(k[1], k[2])
    /\ \E md1, md2 \in PairProfiles : MD_prof = (1 :> md1) @@ (2 :> md2)

Init ==
    /\ MemOPCountThreshold \in {1000}
    /\ MemOPPercentThreshold \in {40, 70}
    /\ MemOPMaxVersion \in {0, 1, 3}
    /\ UseOldMemOpValueProf \in BOOLEAN
    /\ \/ OneCandidate
       \/ TwoCandidates
    /\ layout = << 1 >>
    /\ Changed = FALSE
    /\ runs = 0
    /\ log = << >>

Next ==
    \/ PGOMemOPSizeOptImpl
    \/ PGOMemOPSizeOptImplAgain

Spec == Init /\ [][Next]_vars

\* ------------------------------------------------------------- the claims
Rewrites == {i \in 1 .. Len(log) : log[i].ret}
Planned == {i \in 1 .. Len(log) : log[i].why \in {"", "no version"}}
SeqRange(s) == {s[k] : k \in 1 .. Len(s)}
RECURSIVE Without(_, _, _)
\* s without the elements at the positions pos, from position i on
Without(s, pos, i) ==
    IF i > Len(s) THEN << >>
    ELSE (IF i \in pos THEN << >> ELSE << s[i] >>) \o Without(s, pos, i + 1)
\* the cases of the switch a rewrite left at the end of its head block
SwitchOf(e) == Terminator(e.after.fn.body, e.BB)
\* the recorded counts of the samples a rewrite promoted
PromotedCounts(e) == [k \in 1 .. Len(e.plan.picked) |-> e.VDs[e.plan.picked[k]].Count]

\* C1: a rewrite selects at most MemOPMaxVersion versions, and creates as
\* many cases, whenever MemOPMaxVersion is not 0.
C1_VersionsWithinMax ==
    \A i \in Rewrites :
        MemOPMaxVersion # 0 =>
            /\ log[i].plan.Version <= MemOPMaxVersion
            /\ Len(SwitchOf(log[i]).cases) <= MemOPMaxVersion

\* C2: a later run over the default call, with the record the earlier run
\* wrote back, selects no size the earlier run promoted.
C2_NoSizePromotedTwice ==
    \A i, j \in Rewrites :
        (i < j /\ log[i].MO = log[j].MO) =>
            SeqRange(log[i].plan.SizeIds) \cap SeqRange(log[j].plan.SizeIds) = {}

\* C3: the record a rewrite writes back holds exactly the samples of the
\* original record that were not promoted, and its total is the recorded
\* total less the recorded counts of the promoted samples.
C3_WrittenBackIsUnpromoted ==
    \A i \in Rewrites :
        LET e == log[i]
            md == e.after.fn.MD_prof[e.MO]
        IN  md.present =>
                /\ md.vals = Without(e.md.vals, SeqRange(e.plan.picked), 1)
                /\ md.total = e.md.total - SumCounts(PromotedCounts(e))

\* The total a rewrite planned against: the count of the block when the
\* counts are scaled, else the recorded total.
PlanningTotal(e) ==
    IF MemOPScaleCount THEN getBlockProfileCount(e.before.bfi, e.BB).val
    ELSE e.md.total

\* C4: the counts of the selected cases and the count of the default case add
\* up to the total planned against, and the count reported as covered is the
\* sum of the counts of the selected cases.
C4_CountsAddUp ==
    \A i \in Rewrites :
        LET e == log[i]
            w == SwitchOf(e).weights
        IN  /\ SumCounts(Tail(w)) + w[1] = PlanningTotal(e)
            /\ e.SumForOpt = SumCounts(Tail(w))
            /\ Tail(w) = Tail(e.plan.CaseCounts)

\* C4's case: a rewrite under scaling with two cases and a default count
C4_Witness ==
    \E i \in Rewrites :
        /\ MemOPScaleCount
        /\ Len(log[i].plan.SizeIds) = 2
        /\ log[i].plan.RemainCount > 0
        /\ log[i].TotalCount # log[i].SavedTotalCount

\* C5: every product of the planning saturates: the scaled count is the
\* saturated product over the recorded total, and no sample is accepted below
\* the saturated "remaining * percent" over 100.
C5_MultiplicationsSaturate ==
    \A i \in Planned :
        LET e == log[i]
        IN  \A k \in 1 .. Len(e.plan.tests) :
                LET t == e.plan.tests[k]
                IN  /\ MemOPScaleCount =>
                        t.C = SaturatingMultiply(e.VDs[t.pos].Count, e.TotalCount)
                                  \div e.SavedTotalCount
                    /\ t.ok =>
                        t.C >= SaturatingMultiply(t.Remain, MemOPPercentThreshold)
                                   \div 100

\* C6: after a rewrite the merge block has the frequency its block had
\* before.
C6_MergeKeepsFrequency ==
    \A i \in Rewrites :
        getBlockFreq(log[i].after.bfi, log[i].MergeBB)
            = getBlockFreq(log[i].before.bfi, log[i].BB)

\* C6's case: a rewrite in each of two runs, of blocks of different nonzero
\* frequencies
C6_Witness ==
    \E i, j \in Rewrites :
        /\ log[i].run < log[j].run
        /\ getBlockFreq(log[i].before.bfi, log[i].BB) > 0
        /\ getBlockFreq(log[j].before.bfi, log[j].BB) > 0
        /\ getBlockFreq(log[i].before.bfi, log[i].BB)
             # getBlockFreq(log[j].before.bfi, log[j].BB)

\* The conditions under which a candidate is not applicable, from the state
\* perform(MO) was called in.
NotApplicable(e) ==
    LET I == InstOf(e.before.fn.body, e.MO)
        md == e.before.fn.MD_prof[e.MO]
        cnt == getBlockProfileCount(e.before.bfi, ParentOf(e.before.fn.body, e.MO))
    IN  \/ I.kind = "memmove"
        \/ I.kind \in LibCompares /\ ~ MemOPOptMemcmpBcmp
        \/ ~ md.present \/ Len(md.vals) = 0
        \/ MemOPScaleCount /\ ~ cnt.has
        \/ (IF MemOPScaleCount THEN cnt.val ELSE md.total) < MemOPCountThreshold
        \/ md.total = 0
        \/ e.plan.Version = 0

\* C7: a candidate that is not applicable is skipped: perform(MO) returns
\* false and leaves the blocks, the profile records and the frequencies as
\* they were; a run whose candidates are all skipped reports no change.
C7_NotApplicableIsSkipped ==
    /\ \A i \in 1 .. Len(log) :
        NotApplicable(log[i]) => (~ log[i].ret /\ log[i].after = log[i].before)
    /\ (\A i \in 1 .. Len(log) : log[i].run = runs => NotApplicable(log[i]))
            => ~ Changed

\* C7's case: a memmove with a record that would be promoted for a memcpy
C7_Witness ==
    \E i \in 1 .. Len(log) :
        /\ log[i].kind = "memmove"
        /\ log[i].md = ValueProfMD(<< [Value |-> 16, Count |-> 6000],
                                      [Value |-> 32, Count |-> 3000] >>, 10000)
        /\ ~ MemOPScaleCount
        /\ ~ log[i].ret
        /\ log[i].after = log[i].before

\* The scenario: one memcpy whose record is [(16,6000),(32,3000),(v,1000)] of
\* total 10000, count threshold 1000, percent threshold 40, at most 3
\* versions, counts not scaled.
InScenario(e, v) ==
    /\ e.kind = "memcpy"
    /\ e.md = ValueProfMD(<< [Value |-> 16, Count |-> 6000],
                             [Value |-> 32, Count |-> 3000],
                             [Value |-> v, Count |-> 1000] >>, 10000)
    /\ MemOPCountThreshold = 1000
    /\ MemOPPercentThreshold = 40
    /\ MemOPMaxVersion = 3
    /\ ~ MemOPScaleCount

\* The outcome of the scenario: 16 and 32 planned with their counts, 1000 left
\* to the default case, 6000 the largest count, and two case blocks next to
\* the default block and the merge block.
ScenarioOutcome(e) ==
    /\ e.ret
    /\ e.plan.SizeIds = << 16, 32 >>
    /\ e.plan.CaseCounts = << 1000, 6000, 3000 >>
    /\ e.plan.RemainCount = 1000
    /\ e.plan.MaxCount = 6000
    /\ Len(SwitchOf(e).cases) = 2
    /\ SwitchOf(e).dflt = e.DefaultBB
    /\ Len(e.after.fn.body) = Len(e.before.fn.body) + 4

\* The sizes the third sample of the scenario may record
OtherSizes == {64, 129}

\* C8 as stated: whatever size the third sample records, the scenario (under
\* the new value profiling) plans 16 and 32 and nothing else.
C8_ScenarioAnyOther ==
    \A i \in 1 .. Len(log) : \A v \in OtherSizes :
        (InScenario(log[i], v) /\ ~ UseOldMemOpValueProf)
            => ScenarioOutcome(log[i])

\* C8: under the new value profiling, when the size of the third sample
\* stands for a range of sizes or is beyond the largest size to specialize,
\* the scenario plans 16 and 32 and nothing else: 1000 is left to the default
\* case, 6000 is the largest count and two case blocks are created.
C8_ScenarioOtherFiltered ==
    \A i \in 1 .. Len(log) : \A v \in OtherSizes :
        (InScenario(log[i], v) /\ ~ UseOldMemOpValueProf
            /\ (~ InstrProfIsSingleValRange(v) \/ v > MemOpMaxOptSize))
            => ScenarioOutcome(log[i])

\* C8's case: the scenario, run with a third sample that the filter passes over
C8_Witness ==
    \E i \in 1 .. Len(log) :
        /\ InScenario(log[i], 129)
        /\ ~ UseOldMemOpValueProf
        /\ ScenarioOutcome(log[i])

\* floor(Remain * percent / 100), computed without a product that overflows
PercentOf(Remain, percent) ==
    (Remain \div 100) * percent + ((Remain % 100) * percent) \div 100

\* A tested sample fails the profitability test as it is stated: its count is
\* below the count threshold or below the percent threshold of the remaining
\* count.
FailsTest(t) ==
    \/ t.C < MemOPCountThreshold
    \/ t.C < PercentOf(t.Remain, MemOPPercentThreshold)

\* C9: the planning stops at the first sample that passes the filter and fails
\* the profitability test: neither it nor a sample after it is selected, and
\* when it is the first that passes the filter nothing is rewritten.
C9_StopsAtFirstUnprofitable ==
    \A i \in Planned :
        \A k \in 1 .. Len(log[i].plan.tests) :
            FailsTest(log[i].plan.tests[k]) =>
                /\ \A j \in SeqRange(log[i].plan.picked) :
                        j < log[i].plan.tests[k].pos
                /\ k = 1 => (~ log[i].ret /\ log[i].after = log[i].before)

\* The instructions of a function that use the value v: the users, and the
\* phis with v among their incoming values.
UsersOf(fbody, v) ==
    {id \in InstIds(fbody) \ {0} :
        \/ InstOf(fbody, id).op = "use" /\ InstOf(fbody, id).arg = v
        \/ /\ InstOf(fbody, id).op = "phi"
           /\ \E k \in 1 .. Len(InstOf(fbody, id).incoming) :
                InstOf(fbody, id).incoming[k].val = v}

\* The head block ends in a switch on the length of the call, with the
\* default block as its default and one case per planned size, in order.
HeadWellFormed(SI, I, SizeIds, DefaultBB) ==
    /\ SI.op = "switch"
    /\ SI.cond = I.len
    /\ ~ SI.cond.const
    /\ SI.dflt = DefaultBB
    /\ Len(SI.cases) = Len(SizeIds)
    /\ \A k \in 1 .. Len(SizeIds) : SI.cases[k].val = SizeIds[k]
    /\ \A k, l \in 1 .. Len(SizeIds) :
        k # l => /\ SI.cases[k].dest # SI.cases[l].dest
                 /\ SI.cases[k].val # SI.cases[l].val

\* A case block: a new block that holds one new call of the kind of the
\* original, with the constant length, and the branch to the merge block.
CaseWellFormed(old, new, dest, I, SizeId, MergeBB) ==
    /\ dest \in Blocks(new) \ Blocks(old)
    /\ Len(new[dest]) = 2
    /\ new[dest][1].op = "call"
    /\ new[dest][1].kind = I.kind
    /\ new[dest][1].len = LengthConst(SizeId)
    /\ new[dest][1].id \notin InstIds(old)
    /\ new[dest][2] = BrInst(MergeBB)

\* The phi of the merge block: one incoming value for every predecessor of
\* the block, the original call from the default block and each clone from
\* its case block; the former users of the call use the phi, and nothing but
\* the phi uses the call.
PHIWellFormed(old, new, phi, MO, SI, DefaultBB, MergeBB) ==
    /\ phi.op = "phi"
    /\ phi.id \notin InstIds(old)
    /\ ParentOf(new, phi.id) = MergeBB
    /\ {phi.incoming[k].from : k \in 1 .. Len(phi.incoming)}
            = Predecessors(new, MergeBB)
    /\ Len(phi.incoming) = Cardinality(Predecessors(new, MergeBB))
    /\ Predecessors(new, MergeBB)
            = {DefaultBB} \cup {SI.cases[k].dest : k \in 1 .. Len(SI.cases)}
    /\ \A k \in 1 .. Len(phi.incoming) :
        phi.incoming[k].val =
            IF phi.incoming[k].from = DefaultBB THEN MO
            ELSE new[phi.incoming[k].from][1].id
    /\ UsersOf(new, phi.id) = UsersOf(old, MO)
    /\ UsersOf(new, MO) = {phi.id}

DispatchWellFormed(old, new, MO, I, SizeIds, BB, DefaultBB, MergeBB, PHI) ==
    /\ HeadWellFormed(Terminator(new, BB), I, SizeIds, DefaultBB)
    /\ \A k \in 1 .. Len(SizeIds) :
        CaseWellFormed(old, new, Terminator(new, BB).cases[k].dest, I,
                       SizeIds[k], MergeBB)
    /\ new[DefaultBB] = << I, BrInst(MergeBB) >>
    /\ ~ isVoidTy(I) =>
        PHIWellFormed(old, new, InstOf(new, PHI), MO, Terminator(new, BB),
                      DefaultBB, MergeBB)

\* C10: after a rewrite the head block ends in a switch on the length of the
\* call with the default block as default and one case per planned size, in
\* plan order; every case block holds one clone with that constant length and
\* branches to the merge block; the default block holds the original call and
\* branches to the merge block; and the phi of a call with a result has one
\* incoming value per predecessor of the merge block and takes over every use
\* of the call.
C10_DispatchWellFormed ==
    \A i \in Rewrites :
        DispatchWellFormed(log[i].before.fn.body, log[i].after.fn.body,
                           log[i].MO, InstOf(log[i].before.fn.body, log[i].MO),
                           log[i].plan.SizeIds, log[i].BB, log[i].DefaultBB,
                           log[i].MergeBB, log[i].PHI)

\* C10's case: a memcmp rewritten in a second run, when its result already
\* goes to the phi of the first, with a first rewrite of two cases
C10_Witness ==
    \E i, j \in Rewrites :
        /\ log[i].run < log[j].run
        /\ log[i].kind = "memcmp"
        /\ Len(log[i].plan.SizeIds) = 2
        /\ log[j].MO = log[i].MO
        /\ UsersOf(log[j].before.fn.body, log[j].MO) = {log[i].PHI}

\* The recorded counts of a record
RecordedCounts(md) == [k \in 1 .. Len(md.vals) |-> md.vals[k].Count]

\* C11: for a record whose counts add up to at most its total, scaled or not,
\* no assertion of the walk fails: every sample tested has a count of at most
\* the remaining count, and neither the remaining count nor the recorded
\* count left goes below zero when an accepted count is taken from it.
C11_AssertionsHold ==
    \A i \in Planned :
        SumCounts(RecordedCounts(log[i].md)) <= log[i].md.total =>
            /\ log[i].plan.assertsHold
            /\ \A k \in 1 .. Len(log[i].plan.tests) :
                    log[i].plan.tests[k].C <= log[i].plan.tests[k].Remain
            /\ log[i].plan.SavedRemainCount + SumCounts(PromotedCounts(log[i]))
                    = log[i].SavedTotalCount
            /\ log[i].plan.RemainCount + SumCounts(Tail(log[i].plan.CaseCounts))
                    = log[i].TotalCount

\* C11's case: under scaling, a record whose counts add up to its total, a
\* sample accepted and a later sample tested against what the first left
C11_Witness ==
    \E i \in Planned :
        /\ MemOPScaleCount
        /\ log[i].TotalCount # log[i].SavedTotalCount
        /\ SumCounts(RecordedCounts(log[i].md)) = log[i].md.total
        /\ Len(log[i].plan.picked) >= 1
        /\ Len(log[i].plan.tests) >= 2
        /\ log[i].plan.tests[2].Remain < log[i].TotalCount

\* What perform(MO) plans for the candidate of log entry j in the state that
\* log entry i was performed in.
PlannedBefore(i, j) ==
    perform(log[i].before.fn, log[i].before.bfi, log[j].MO, log[j].run).rec

\* C12: the candidates of a run are performed in the order of the
\* instructions, and what is planned for a candidate (the total planned
\* against, the sizes, the counts, the count left to the default case) is
\* what would be planned for it had a candidate before it been skipped, that
\* is in the state the earlier candidate was performed in.
C12_CandidatesIndependent ==
    /\ \A r \in 1 .. runs :
        \A i, j \in {k \in 1 .. Len(log) : log[k].run = r} :
            i < j =>
                /\ log[j].TotalCount = PlannedBefore(i, j).TotalCount
                /\ log[j].why = PlannedBefore(i, j).why
                /\ log[j].plan = PlannedBefore(i, j).plan
    /\ \A i \in 1 .. Len(log) :
        log[i].run = 1 =>
            log[i].MO = visit(log[1].before.fn.body, log[1].before.fn.layout)[i]

\* C12's case: two candidates of one block, the counts scaled, the earlier
\* rewritten and the later, then in the merge block, rewritten as well
C12_Witness ==
    \E i, j \in Rewrites :
        /\ i < j
        /\ log[i].run = log[j].run
        /\ MemOPScaleCount
        /\ ParentOf(log[i].before.fn.body, log[j].MO) = log[i].BB
        /\ log[j].BB = log[i].MergeBB
        /\ log[j].TotalCount > 0

====
